---- MODULE Spec2Model ----
(***************************************************************************)
(* Model of the address-book / notes assistant (src/main.py).              *)
(*                                                                         *)
(* Text is modelled as a sequence of one-character strings, so that the    *)
(* validators, strip(), split() and int() are computed on the characters.  *)
(* A datetime is a record [year, month, day, tod], tod being the time of   *)
(* day in seconds since midnight; strptime("%d.%m.%Y") yields tod = 0.     *)
(***************************************************************************)
EXTENDS Integers, Sequences, FiniteSets, TLC

----------------------------------------------------------------------------
(* Characters and str methods                                              *)

Digits == {"0", "1", "2", "3", "4", "5", "6", "7", "8", "9"}

Letters == {"a", "b", "c", "d", "e", "f", "g", "h", "i", "j", "k", "l", "m",
            "n", "o", "p", "q", "r", "s", "t", "u", "v", "w", "x", "y", "z",
            "A", "B", "C", "D", "E", "F", "G", "H", "I", "J", "K", "L", "M",
            "N", "O", "P", "Q", "R", "S", "T", "U", "V", "W", "X", "Y", "Z"}

Whitespace == {" "}

DigitVal(c) ==
    CASE c = "0" -> 0 [] c = "1" -> 1 [] c = "2" -> 2 [] c = "3" -> 3
      [] c = "4" -> 4 [] c = "5" -> 5 [] c = "6" -> 6 [] c = "7" -> 7
      [] c = "8" -> 8 [] c = "9" -> 9

AllIn(s, chars) == \A i \in 1..Len(s) : s[i] \in chars

\* str.isdigit(): non-empty and every character a digit
isdigit(s) == Len(s) >= 1 /\ AllIn(s, Digits)

\* int(s) for a string of decimal digits
RECURSIVE int(_)
int(s) ==
    IF Len(s) = 0 THEN 0
    ELSE 10 * int(SubSeq(s, 1, Len(s) - 1)) + DigitVal(s[Len(s)])

RECURSIVE lstrip(_)
lstrip(s) ==
    IF Len(s) >= 1 /\ s[1] \in Whitespace THEN lstrip(Tail(s)) ELSE s

RECURSIVE rstrip(_)
rstrip(s) ==
    IF Len(s) >= 1 /\ s[Len(s)] \in Whitespace
    THEN rstrip(SubSeq(s, 1, Len(s) - 1))
    ELSE s

\* str.strip()
strip(s) == rstrip(lstrip(s))

\* length of the first run of characters of s that are not in seps
RECURSIVE WordLen(_, _)
WordLen(s, seps) ==
    IF Len(s) = 0 \/ s[1] \in seps THEN 0 ELSE 1 + WordLen(Tail(s), seps)

\* str.split(): the maximal runs of non-whitespace characters
RECURSIVE split(_)
split(s) ==
    LET t == lstrip(s)
        n == WordLen(t, Whitespace)
    IN  IF Len(t) = 0 THEN << >>
        ELSE << SubSeq(t, 1, n) >> \o split(SubSeq(t, n + 1, Len(t)))

\* str.split(maxsplit=1): the first word and, when something other than
\* whitespace follows it, the rest of the line from there
split_max1(s) ==
    LET t == lstrip(s)
        n == WordLen(t, Whitespace)
        r == lstrip(SubSeq(t, n + 1, Len(t)))
    IN  IF Len(t) = 0 THEN << >>
        ELSE IF Len(r) = 0 THEN << SubSeq(t, 1, n) >>
        ELSE << SubSeq(t, 1, n), r >>

\* the pieces of s between occurrences of the character sep (never empty
\* as a sequence: the empty string has one empty piece)
RECURSIVE Pieces(_, _)
Pieces(s, sep) ==
    LET n == WordLen(s, {sep})
    IN  IF n = Len(s) THEN << s >>
        ELSE << SubSeq(s, 1, n) >> \o Pieces(SubSeq(s, n + 2, Len(s)), sep)

UpperCase == << "A", "B", "C", "D", "E", "F", "G", "H", "I", "J", "K", "L", "M",
                "N", "O", "P", "Q", "R", "S", "T", "U", "V", "W", "X", "Y", "Z" >>

LowerCase == << "a", "b", "c", "d", "e", "f", "g", "h", "i", "j", "k", "l", "m",
                "n", "o", "p", "q", "r", "s", "t", "u", "v", "w", "x", "y", "z" >>

\* str.lower()
lower(s) ==
    [i \in 1..Len(s) |->
        IF \E k \in 1..Len(UpperCase) : UpperCase[k] = s[i]
        THEN LowerCase[CHOOSE k \in 1..Len(UpperCase) : UpperCase[k] = s[i]]
        ELSE s[i]]

\* q in s, for strings
contains(s, q) ==
    \E i \in 1..(Len(s) - Len(q) + 1) : SubSeq(s, i, i + Len(q) - 1) = q

\* " ".join(args)
RECURSIVE join(_)
join(args) ==
    IF Len(args) = 0 THEN << >>
    ELSE IF Len(args) = 1 THEN args[1]
    ELSE args[1] \o << " " >> \o join(Tail(args))

----------------------------------------------------------------------------
(* Field validators                                                        *)

PhoneLen == 10

MinAddressLen == 2

MinTldLen == 2

\* Phone.validate: re.fullmatch(r"\d{10}", value)
Phone_validate(value) == Len(value) = PhoneLen /\ AllIn(value, Digits)

\* Address.validate: len(value) >= 2
Address_validate(value) == Len(value) >= MinAddressLen

EmailLocalChars == Letters \cup Digits \cup {"_", ".", "+", "-"}

EmailLabelChars == Letters \cup Digits \cup {"-"}

\* Email.validate: local@label(.label)*.tld
Email_validate(value) ==
    LET parts == Pieces(value, "@")
    IN  /\ Len(parts) = 2
        /\ Len(parts[1]) >= 1
        /\ AllIn(parts[1], EmailLocalChars)
        /\ LET labels == Pieces(parts[2], ".")
               k == Len(labels)
           IN  /\ k >= 2
               /\ \A i \in 1..(k - 1) :
                      Len(labels[i]) >= 1 /\ AllIn(labels[i], EmailLabelChars)
               /\ Len(labels[k]) >= MinTldLen
               /\ AllIn(labels[k], Letters)

----------------------------------------------------------------------------
(* datetime                                                                *)

IsLeap(y) == (y % 4 = 0) /\ ((y % 100 /= 0) \/ (y % 400 = 0))

DaysInMonth(y, m) ==
    IF m = 2 THEN (IF IsLeap(y) THEN 29 ELSE 28)
    ELSE IF m \in {4, 6, 9, 11} THEN 30 ELSE 31

DaysBeforeYear(y) ==
    ((y - 1) * 365) + ((y - 1) \div 4) - ((y - 1) \div 100) + ((y - 1) \div 400)

RECURSIVE DaysBeforeMonth(_, _)
DaysBeforeMonth(y, m) ==
    IF m = 1 THEN 0 ELSE DaysBeforeMonth(y, m - 1) + DaysInMonth(y, m - 1)

\* date.toordinal()
toordinal(dt) ==
    DaysBeforeYear(dt.year) + DaysBeforeMonth(dt.year, dt.month) + dt.day

\* the largest ordinal a date can have (31.12.9999)
MaxOrdinal == DaysBeforeYear(10000)

\* a point in time as (ordinal day, time of day): the order of datetimes
Stamp(dt) == [ord |-> toordinal(dt), tod |-> dt.tod]

StampLt(a, b) == a.ord < b.ord \/ (a.ord = b.ord /\ a.tod < b.tod)

StampLe(a, b) == a.ord < b.ord \/ (a.ord = b.ord /\ a.tod <= b.tod)

\* datetime + timedelta(days=n): raises OverflowError past year 9999
timedelta_add(dt, n) ==
    IF toordinal(dt) + n > MaxOrdinal
    THEN [raised |-> "OverflowError"]
    ELSE [raised |-> "", value |-> [ord |-> toordinal(dt) + n, tod |-> dt.tod]]

\* datetime.replace(year=y): raises ValueError when the day does not exist
replace_year(dt, y) ==
    IF y > 9999 \/ dt.day > DaysInMonth(y, dt.month)
    THEN [raised |-> "ValueError"]
    ELSE [raised |-> "", value |-> [dt EXCEPT !.year = y]]

\* the day-of-month forms %d accepts: 3[0-1] | [1-2]\d | 0[1-9] | [1-9] | " "[1-9]
DayForm(p) ==
    \/ Len(p) = 1 /\ p[1] \in (Digits \ {"0"})
    \/ Len(p) = 2 /\ p[1] \in {"1", "2"} /\ p[2] \in Digits
    \/ Len(p) = 2 /\ p[1] = "3" /\ p[2] \in {"0", "1"}
    \/ Len(p) = 2 /\ p[1] \in {"0", " "} /\ p[2] \in (Digits \ {"0"})

\* the month forms %m accepts: 1[0-2] | 0[1-9] | [1-9]
MonthForm(p) ==
    \/ Len(p) = 1 /\ p[1] \in (Digits \ {"0"})
    \/ Len(p) = 2 /\ p[1] = "1" /\ p[2] \in {"0", "1", "2"}
    \/ Len(p) = 2 /\ p[1] = "0" /\ p[2] \in (Digits \ {"0"})

\* the year form %Y accepts: \d\d\d\d
YearForm(p) == Len(p) = 4 /\ AllIn(p, Digits)

\* datetime.strptime(value, "%d.%m.%Y")
strptime(value) ==
    LET parts == Pieces(value, ".")
    IN  IF Len(parts) = 3 /\ DayForm(parts[1]) /\ MonthForm(parts[2])
           /\ YearForm(parts[3])
        THEN LET d == int(lstrip(parts[1]))
                 m == int(parts[2])
                 y == int(parts[3])
             IN  IF y >= 1 /\ d <= DaysInMonth(y, m)
                 THEN [raised |-> "",
                       value |-> [year |-> y, month |-> m, day |-> d, tod |-> 0]]
                 ELSE [raised |-> "ValueError"]
        ELSE [raised |-> "ValueError"]

----------------------------------------------------------------------------
(* dict: a sequence of [key, val] entries with distinct keys, in insertion *)
(* order                                                                   *)

dict_keys(d) == {d[i].key : i \in 1..Len(d)}

dict_index(d, k) == CHOOSE i \in 1..Len(d) : d[i].key = k

\* d[k]
dict_get(d, k) == d[dict_index(d, k)].val

\* d[k] = v: an existing key keeps its place, a new key goes last
dict_set(d, k, v) ==
    IF k \in dict_keys(d)
    THEN [d EXCEPT ![dict_index(d, k)].val = v]
    ELSE Append(d, [key |-> k, val |-> v])

\* del d[k]
dict_del(d, k) ==
    LET i == dict_index(d, k)
    IN  SubSeq(d, 1, i - 1) \o SubSeq(d, i + 1, Len(d))

\* list(d.values())
dict_values(d) == [i \in 1..Len(d) |-> d[i].val]

----------------------------------------------------------------------------
(* State                                                                   *)

VARIABLES
    book,       \* AddressBook.data: name -> Record
    notes,      \* NoteBook.data: title -> Note
    pc,         \* where main() stands: the prompt it waits at, or how it ended
    frame,      \* the locals of the interactive handler main() is inside
    files,      \* what save_note_book / save_address_book last wrote
    count,      \* number of input lines main() has read
    now,        \* what datetime.today() returned when it was last read
    call,       \* the last call made: its name, arguments, exception, result
    book0,      \* book as it was when that call began
    notes0      \* notes as it was when that call began

vars == << book, notes, pc, frame, files, count, now, call, book0, notes0 >>

\* an absent optional value (None) and a present one
None == << >>

Some(v) == << v >>

\* datetime(year, month, day) at tod seconds past midnight
datetime(year, month, day, tod) ==
    [year |-> year, month |-> month, day |-> day, tod |-> tod]

\* the moment main() starts at
StartMoment == datetime(2024, 2, 28, 0)

\* A call: its name, its text arguments, its integer argument (days, 0 when
\* it has none), the exception it raised ("" when it returned), the message
\* or status it returned and the list of names it returned (<< >> when it
\* returns no list).
NoCall ==
    [op |-> "", args |-> << >>, days |-> 0, raised |-> "", ret |-> "None",
     names |-> << >>]

Returned(op, args, ret) == [NoCall EXCEPT !.op = op, !.args = args, !.ret = ret]

Raised(op, args, exc) ==
    [NoCall EXCEPT !.op = op, !.args = args, !.raised = exc]

\* the locals of an interactive handler: the title entered, the choice made
\* and the new title ("" before they are assigned)
NoFrame == [title |-> << >>, choice |-> << >>, new_title |-> << >>]

\* main() after load_note_book / load_address_book found no file
Init ==
    /\ book = << >>
    /\ notes = << >>
    /\ pc = "command"
    /\ frame = NoFrame
    /\ files = [note_book |-> None, address_book |-> None]
    /\ count = 0
    /\ now = StartMoment
    /\ call = NoCall
    /\ book0 = << >>
    /\ notes0 = << >>

----------------------------------------------------------------------------
(* Note and NoteBook                                                       *)

\* Note.__init__; first_added is history kept for the properties, not a
\* field of the class: the distinct tags passed to add_tag, in the order of
\* the first call with each
Note(title, content) ==
    [title |-> title, content |-> content, tags |-> << >>,
     first_added |-> << >>]

InSeq(x, seq) == \E i \in 1..Len(seq) : seq[i] = x

\* a faulty variant of add_tag: the membership test is missing
Note_add_tag_unchecked(tags, tag) == Append(tags, tag)

\* Note.add_tag, on the tag list
Note_add_tag(tags, tag) ==
    IF ~InSeq(tag, tags) THEN Append(tags, tag) ELSE tags

\* a faulty variant of add_note: the test for an existing title is missing
NoteBook_add_note_overwriting(data, title, content) ==
    [data |-> dict_set(data, title, Note(title, content)),
     ret |-> "Note was added!"]

\* NoteBook.add_note: the collection afterwards and the message returned
NoteBook_add_note(data, title, content) ==
    IF title \in dict_keys(data)
    THEN [data |-> data, ret |-> "already exists"]
    ELSE [data |-> dict_set(data, title, Note(title, content)),
          ret |-> "Note was added!"]

\* NoteBook.delete_note
NoteBook_delete_note(data, title) ==
    IF title \in dict_keys(data)
    THEN [data |-> dict_del(data, title), ret |-> "has been deleted"]
    ELSE [data |-> data, ret |-> "was not found"]

\* a faulty variant of edit_note_title: the note is moved but its title
\* field is not updated
NoteBook_edit_note_title_stale(data, current_title, new_title) ==
    IF current_title \in dict_keys(data)
    THEN dict_set(dict_del(data, current_title), new_title,
                  dict_get(data, current_title))
    ELSE data

\* NoteBook.edit_note_title: pop the note, store it under new_title, then
\* set its title field
NoteBook_edit_note_title(data, current_title, new_title) ==
    IF current_title \in dict_keys(data)
    THEN LET popped == dict_get(data, current_title)
             moved == dict_set(dict_del(data, current_title), new_title, popped)
         IN  dict_set(moved, new_title,
                      [dict_get(moved, new_title) EXCEPT !.title = new_title])
    ELSE data

\* NoteBook.edit_note_content
NoteBook_edit_note_content(data, title, new_content) ==
    IF title \in dict_keys(data)
    THEN dict_set(data, title,
                  [dict_get(data, title) EXCEPT !.content = new_content])
    ELSE data

\* note = note_book.data[title]; note.add_tag(tag), the note remembering
\* also the distinct tags it was given, in the order they first came
add_tag_to(data, title, tag) ==
    LET note == dict_get(data, title)
    IN  dict_set(data, title,
                 [note EXCEPT
                     !.tags = Note_add_tag(@, tag),
                     !.first_added =
                         IF InSeq(tag, @) THEN @ ELSE Append(@, tag)])

----------------------------------------------------------------------------
(* Record and AddressBook                                                  *)

\* Record.__init__
Record(name) ==
    [name |-> name, birthday |-> None, phones |-> << >>, email |-> None,
     address |-> None]

\* Every Record method below gives the record afterwards and the exception
\* it raised ("" when it returned).

\* Record.add_email: Email(email) raises before the assignment
Record_add_email(rec, email) ==
    IF Email_validate(email)
    THEN [rec |-> [rec EXCEPT !.email = Some(email)], raised |-> ""]
    ELSE [rec |-> rec, raised |-> "ValueError"]

\* Record.add_phone
Record_add_phone(rec, phone) ==
    IF Phone_validate(phone)
    THEN [rec |-> [rec EXCEPT !.phones = Append(@, phone)], raised |-> ""]
    ELSE [rec |-> rec, raised |-> "ValueError"]

\* a faulty variant of add_birthday: the field is cleared before the text
\* is parsed
Record_add_birthday_clearing(rec, birthday) ==
    LET parsed == strptime(birthday)
    IN  IF parsed.raised = ""
        THEN [rec |-> [rec EXCEPT !.birthday = Some(parsed.value)],
              raised |-> ""]
        ELSE [rec |-> [rec EXCEPT !.birthday = None], raised |-> "ValueError"]

\* Record.add_birthday: Birthday(birthday) turns strptime's ValueError into
\* its own, before the assignment
Record_add_birthday(rec, birthday) ==
    LET parsed == strptime(birthday)
    IN  IF parsed.raised = ""
        THEN [rec |-> [rec EXCEPT !.birthday = Some(parsed.value)],
              raised |-> ""]
        ELSE [rec |-> rec, raised |-> "ValueError"]

\* Record.add_address
Record_add_address(rec, address) ==
    IF Address_validate(address)
    THEN [rec |-> [rec EXCEPT !.address = Some(address)], raised |-> ""]
    ELSE [rec |-> rec, raised |-> "ValueError"]

\* Record.remove_phone: keeps the phones whose value is not phone
Record_remove_phone(rec, phone) ==
    [rec EXCEPT !.phones = SelectSeq(@, LAMBDA p : p /= phone)]

\* Record.edit_phone: remove_phone(old_phone), then add_phone(new_phone)
Record_edit_phone(rec, old_phone, new_phone) ==
    Record_add_phone(Record_remove_phone(rec, old_phone), new_phone)

\* Record.find_phone: the value found, or the not-found message
Record_find_phone(rec, phone) ==
    IF InSeq(phone, rec.phones) THEN phone ELSE << "Phone not found." >>

\* AddressBook.add_record
AddressBook_add_record(data, record) == dict_set(data, record.name, record)

\* AddressBook.find
AddressBook_find(data, name) ==
    IF name \in dict_keys(data) THEN Some(dict_get(data, name)) ELSE None

\* AddressBook.delete
AddressBook_delete(data, name) ==
    IF name \in dict_keys(data)
    THEN [data |-> dict_del(data, name), ret |-> "None"]
    ELSE [data |-> data, ret |-> "Contact not found."]

\* the loop of get_upcoming_birthdays over the records that remain, names
\* being the list built so far: the list returned, or the exception raised
RECURSIVE upcoming_loop(_, _, _, _)
upcoming_loop(records, names, today, target_date) ==
    IF Len(records) = 0 THEN [raised |-> "", value |-> names]
    ELSE LET record == Head(records)
         IN  IF record.birthday = None
             THEN upcoming_loop(Tail(records), names, today, target_date)
             ELSE LET this_year == replace_year(record.birthday[1], today.year)
                      passed == this_year.raised = ""
                                /\ StampLt(Stamp(this_year.value), Stamp(today))
                      birthday_this_year ==
                          IF passed
                          THEN replace_year(this_year.value, today.year + 1)
                          ELSE this_year
                  IN  IF birthday_this_year.raised /= ""
                      THEN [raised |-> birthday_this_year.raised]
                      ELSE upcoming_loop(
                               Tail(records),
                               IF /\ StampLe(Stamp(today),
                                             Stamp(birthday_this_year.value))
                                  /\ StampLe(Stamp(birthday_this_year.value),
                                             target_date)
                               THEN Append(names, record.name)
                               ELSE names,
                               today, target_date)

\* AddressBook.get_upcoming_birthdays, today being what datetime.today()
\* gives: the list of names returned, or the exception raised
AddressBook_get_upcoming_birthdays(data, today, days) ==
    LET target_date == timedelta_add(today, days)
    IN  IF target_date.raised /= "" THEN [raised |-> target_date.raised]
        ELSE upcoming_loop(dict_values(data), << >>, today, target_date.value)

----------------------------------------------------------------------------
(* The command handlers on the directory                                   *)
(*                                                                         *)
(* A handler gives the directory afterwards, the kind of message printed   *)
(* ("" when nothing is printed), the list printed with it and the          *)
(* exception the function raised ("" when it returned).                    *)

Done(data, out) == [data |-> data, out |-> out, names |-> << >>, raised |-> ""]

Listed(data, out, names) ==
    [data |-> data, out |-> out, names |-> names, raised |-> ""]

Failed(data, exc) == [data |-> data, out |-> "", names |-> << >>, raised |-> exc]

\* the exceptions input_error catches
Caught == {"KeyError", "ValueError", "IndexError"}

\* input_error: the wrapper prints "Error: ..." for a caught exception and
\* returns; what the function did before it raised stays done
input_error(r) ==
    IF r.raised \in Caught
    THEN [r EXCEPT !.out = "Error", !.raised = ""]
    ELSE r

\* add_contact, undecorated
add_contact_body(args, data) ==
    IF Len(args) < 2 THEN Failed(data, "IndexError")
    ELSE LET name == args[1]
             phone == args[2]
             found == AddressBook_find(data, name)
             record == IF found = None THEN Record(name) ELSE found[1]
             stored == IF found = None
                       THEN AddressBook_add_record(data, record)
                       ELSE data
             message == IF found = None THEN "New contact added."
                        ELSE "Contact updated."
             r == Record_add_phone(record, phone)
         IN  IF r.raised /= ""
             THEN Failed(dict_set(stored, name, r.rec), r.raised)
             ELSE Done(dict_set(stored, name, r.rec), message)

add_contact(args, data) == input_error(add_contact_body(args, data))

\* change_phone, undecorated
change_phone_body(args, data) ==
    IF Len(args) < 3 THEN Failed(data, "IndexError")
    ELSE LET name == args[1]
             found == AddressBook_find(data, name)
         IN  IF found /= None
             THEN LET r == Record_edit_phone(found[1], args[2], args[3])
                  IN  IF r.raised /= ""
                      THEN Failed(dict_set(data, name, r.rec), r.raised)
                      ELSE Done(dict_set(data, name, r.rec),
                                "Phone has been changed.")
             ELSE Done(data, "Contact not found.")

change_phone(args, data) == input_error(change_phone_body(args, data))

\* show_phone_numbers: prints the phones of a contact that is found and
\* nothing otherwise (the message it returns is dropped by the wrapper)
show_phone_numbers(args, data) ==
    input_error(
        IF Len(args) < 1 THEN Failed(data, "IndexError")
        ELSE LET found == AddressBook_find(data, args[1])
             IN  IF found /= None
                 THEN Listed(data, "phones", found[1].phones)
                 ELSE Done(data, ""))

\* show_all_contacts: the table has one row per record, in directory order
show_all_contacts(data) ==
    input_error(
        IF Len(data) < 1 THEN Done(data, "Address book is empty.")
        ELSE Listed(data, "Address Book",
                    [i \in 1..Len(data) |-> data[i].val.name]))

\* add_birthday (the handler)
add_birthday(args, data) ==
    input_error(
        IF Len(args) < 2 THEN Failed(data, "IndexError")
        ELSE LET name == args[1]
                 found == AddressBook_find(data, name)
             IN  IF found /= None
                 THEN LET r == Record_add_birthday(found[1], args[2])
                      IN  IF r.raised /= ""
                          THEN Failed(dict_set(data, name, r.rec), r.raised)
                          ELSE Done(dict_set(data, name, r.rec),
                                    "Birthday added.")
                 ELSE Done(data, "Contact not found."))

\* add_address (the handler): the address is the rest of the arguments
\* joined by single spaces
add_address(args, data) ==
    input_error(
        IF Len(args) < 1 THEN Failed(data, "IndexError")
        ELSE LET name == args[1]
                 address == join(Tail(args))
                 found == AddressBook_find(data, name)
             IN  IF found /= None
                 THEN LET r == Record_add_address(found[1], address)
                      IN  IF r.raised /= ""
                          THEN Failed(dict_set(data, name, r.rec), r.raised)
                          ELSE Done(dict_set(data, name, r.rec),
                                    "Address added.")
                 ELSE Done(data, "Contact not found."))

\* add_email (the handler): name, email = args needs exactly two arguments
add_email(args, data) ==
    input_error(
        IF Len(args) /= 2 THEN Failed(data, "ValueError")
        ELSE LET name == args[1]
                 found == AddressBook_find(data, name)
             IN  IF found /= None
                 THEN LET r == Record_add_email(found[1], args[2])
                      IN  IF r.raised /= ""
                          THEN Failed(dict_set(data, name, r.rec), r.raised)
                          ELSE Done(dict_set(data, name, r.rec),
                                    "Email added.")
                 ELSE Done(data, "Contact not found."))

\* show_birthday
show_birthday(args, data) ==
    input_error(
        IF Len(args) < 1 THEN Failed(data, "IndexError")
        ELSE LET found == AddressBook_find(data, args[1])
             IN  IF found /= None /\ found[1].birthday /= None
                 THEN Done(data, "birthday")
                 ELSE IF found /= None
                 THEN Done(data, "does not have a birthday set.")
                 ELSE Done(data, "Contact not found."))

DefaultDays == 7

\* upcoming_birthdays (the handler), datetime.today() giving today
upcoming_birthdays(args, data, today) ==
    input_error(
        LET days == IF Len(args) >= 1 /\ isdigit(args[1]) THEN int(args[1])
                    ELSE DefaultDays
            r == AddressBook_get_upcoming_birthdays(data, today, days)
        IN  IF r.raised /= "" THEN Failed(data, r.raised)
            ELSE IF Len(r.value) >= 1
            THEN Listed(data, "Contacts with birthdays", r.value)
            ELSE Done(data, "No contacts with birthdays."))

----------------------------------------------------------------------------
(* The command handlers on the notes that read no further input            *)

\* show_all_notes: the table has one row per note, in collection order
show_all_notes(data) ==
    input_error(
        IF Len(data) < 1 THEN Done(data, "Notes book is empty.")
        ELSE Listed(data, "Notes Book",
                    [i \in 1..Len(data) |-> data[i].key]))

\* delete_note (the handler): the title is the arguments joined by single
\* spaces; the message of NoteBook.delete_note is printed
delete_note(args, data) ==
    input_error(
        LET r == NoteBook_delete_note(data, join(args))
        IN  Done(r.data, r.ret))

\* the indices, in order, of the notes whose title or content contains query
RECURSIVE search_results(_, _)
search_results(data, query) ==
    IF Len(data) = 0 THEN << >>
    ELSE LET note == data[1].val
             rest == search_results(Tail(data), query)
         IN  IF \/ contains(lower(note.title), query)
                \/ contains(lower(note.content), query)
             THEN << note.title >> \o rest
             ELSE rest

\* search_note
search_note(args, data) ==
    input_error(
        LET query == lower(strip(join(args)))
            results == search_results(data, query)
        IN  IF Len(query) = 0
            THEN Done(data, "Search query should not be empty.")
            ELSE IF Len(results) >= 1
            THEN Listed(data, "Search Results", results)
            ELSE Done(data, "No matching notes found."))

----------------------------------------------------------------------------
(* The note collection used through its methods                            *)

\* bound on the number of notes held at once
MaxNotes == 2

Shop == << "S", "h", "o", "p" >>

Food == << "F", "o", "o", "d" >>

Todo == << "T", "o", "d", "o" >>

Milk == << "m", "i", "l", "k" >>

Eggs == << "e", "g", "g", "s" >>

TagX == << "x" >>

TagY == << "y" >>

NoteTitles == {Shop, Food, Todo}

NoteContents == {Milk, Eggs}

NoteTags == {TagX, TagY}

\* what a call on the note collection leaves alone
NotesCallFrame == UNCHANGED << book, pc, frame, files, count, now >>

Call_NoteBook_add_note(title, content) ==
    LET r == NoteBook_add_note(notes, title, content)
    IN  /\ Len(r.data) <= MaxNotes
        /\ notes' = r.data
        /\ call' = Returned("NoteBook.add_note", << title, content >>, r.ret)
        /\ notes0' = notes /\ book0' = book
        /\ NotesCallFrame

Call_NoteBook_delete_note(title) ==
    LET r == NoteBook_delete_note(notes, title)
    IN  /\ notes' = r.data
        /\ call' = Returned("NoteBook.delete_note", << title >>, r.ret)
        /\ notes0' = notes /\ book0' = book
        /\ NotesCallFrame

Call_NoteBook_edit_note_title(current_title, new_title) ==
    /\ notes' = NoteBook_edit_note_title(notes, current_title, new_title)
    /\ call' = Returned("NoteBook.edit_note_title",
                        << current_title, new_title >>, "None")
    /\ notes0' = notes /\ book0' = book
    /\ NotesCallFrame

Call_NoteBook_edit_note_content(title, new_content) ==
    /\ notes' = NoteBook_edit_note_content(notes, title, new_content)
    /\ call' = Returned("NoteBook.edit_note_content",
                        << title, new_content >>, "None")
    /\ notes0' = notes /\ book0' = book
    /\ NotesCallFrame

\* note_book.data[title].add_tag(tag)
Call_Note_add_tag(title, tag) ==
    /\ title \in dict_keys(notes)
    /\ notes' = add_tag_to(notes, title, tag)
    /\ call' = Returned("Note.add_tag", << title, tag >>, "None")
    /\ notes0' = notes /\ book0' = book
    /\ NotesCallFrame

NextNotes ==
    \/ \E title \in NoteTitles, content \in NoteContents :
           Call_NoteBook_add_note(title, content)
    \/ \E title \in NoteTitles : Call_NoteBook_delete_note(title)
    \/ \E current_title \in NoteTitles, new_title \in NoteTitles :
           Call_NoteBook_edit_note_title(current_title, new_title)
    \/ \E title \in NoteTitles, new_content \in NoteContents :
           Call_NoteBook_edit_note_content(title, new_content)
    \/ \E title \in NoteTitles, tag \in NoteTags : Call_Note_add_tag(title, tag)

SpecNotes == Init /\ [][NextNotes]_vars

----------------------------------------------------------------------------
(* Properties of the note collection                                       *)

NoDuplicates(seq) ==
    \A i \in 1..Len(seq), j \in 1..Len(seq) : seq[i] = seq[j] => i = j

\* the notes under the titles of keep are in d1 exactly as they are in d0
SameNotes(d0, d1, keep) ==
    \A k \in keep : k \in dict_keys(d1) /\ dict_get(d1, k) = dict_get(d0, k)

\* C1: edit_note_title(old, new) with old /= new both present is rejected
\* with the already-exists status and leaves the collection as it was
C1_RenameOntoExistingRejected ==
    ( /\ call.op = "NoteBook.edit_note_title"
      /\ call.args[1] /= call.args[2]
      /\ call.args[1] \in dict_keys(notes0)
      /\ call.args[2] \in dict_keys(notes0) )
    => /\ call.ret = "already exists"
       /\ notes = notes0

\* C1, the part about the other note alone: the note that was stored under
\* new is still there with its content and tags, and no note is lost
C1_RenameKeepsOtherNote ==
    ( /\ call.op = "NoteBook.edit_note_title"
      /\ call.args[1] /= call.args[2]
      /\ call.args[1] \in dict_keys(notes0)
      /\ call.args[2] \in dict_keys(notes0) )
    => /\ Len(notes) >= Len(notes0)
       /\ SameNotes(notes0, notes, {call.args[2]})

\* C7: add_note(title, content) on a present title returns the
\* already-exists status and changes nothing; on an absent title it inserts
\* a note with that title, that content and no tags, and changes no other note
C7_AddNote ==
    call.op = "NoteBook.add_note" =>
        LET title == call.args[1]
            content == call.args[2]
        IN  IF title \in dict_keys(notes0)
            THEN call.ret = "already exists" /\ notes = notes0
            ELSE /\ call.ret = "Note was added!"
                 /\ dict_keys(notes) = dict_keys(notes0) \cup {title}
                 /\ dict_get(notes, title).title = title
                 /\ dict_get(notes, title).content = content
                 /\ dict_get(notes, title).tags = << >>
                 /\ SameNotes(notes0, notes, dict_keys(notes0))

\* C7's case: add_note on a title whose note has other content and a tag
C7_Witness ==
    /\ call.op = "NoteBook.add_note"
    /\ call.args[1] \in dict_keys(notes0)
    /\ dict_get(notes0, call.args[1]).content /= call.args[2]
    /\ Len(dict_get(notes0, call.args[1]).tags) >= 1
    /\ Len(notes0) >= 2

\* C9: edit_note_title(old, new) with old present and new absent leaves
\* nothing under old, leaves under new a note titled new with old's content
\* and tags, and leaves every other note as it was; with old absent it
\* changes nothing
C9_RenameMoves ==
    call.op = "NoteBook.edit_note_title" =>
        LET old == call.args[1]
            new == call.args[2]
        IN  /\ (old \in dict_keys(notes0) /\ new \notin dict_keys(notes0)) =>
                /\ dict_keys(notes) = (dict_keys(notes0) \ {old}) \cup {new}
                /\ dict_get(notes, new).title = new
                /\ dict_get(notes, new).content = dict_get(notes0, old).content
                /\ dict_get(notes, new).tags = dict_get(notes0, old).tags
                /\ SameNotes(notes0, notes, dict_keys(notes0) \ {old})
            /\ old \notin dict_keys(notes0) => notes = notes0

\* C9's case: a tagged note renamed to a free title beside another note
C9_Witness ==
    /\ call.op = "NoteBook.edit_note_title"
    /\ call.args[1] \in dict_keys(notes0)
    /\ call.args[2] \notin dict_keys(notes0)
    /\ Len(dict_get(notes0, call.args[1]).tags) >= 1
    /\ Len(notes0) >= 2

\* C10: every note's tags are the distinct tags given to add_tag, each once,
\* in the order of their first insertion; and add_tag(tag) applied again
\* right after add_tag(tag) leaves the tags as the first application did
C10_AddTagIdempotent ==
    /\ \A i \in 1..Len(notes) :
           /\ NoDuplicates(notes[i].val.tags)
           /\ notes[i].val.tags = notes[i].val.first_added
    /\ call.op = "Note.add_tag" =>
           LET tags == dict_get(notes, call.args[1]).tags
           IN  /\ InSeq(call.args[2], tags)
               /\ Note_add_tag(tags, call.args[2]) = tags

\* C10's case: add_tag of a tag the note already holds, as its first of two
C10_Witness ==
    /\ call.op = "Note.add_tag"
    /\ call.args[1] \in dict_keys(notes0)
    /\ LET before == dict_get(notes0, call.args[1]).tags
       IN  Len(before) = 2 /\ before[1] = call.args[2]

----------------------------------------------------------------------------
(* One contact record used through its methods                             *)

\* bound on the number of phones a record holds
MaxPhones == 2

Ann == << "A", "n", "n" >>

Bob == << "B", "o", "b" >>

Phone1 == << "0", "5", "0", "1", "2", "3", "4", "5", "6", "7" >>

Phone2 == << "0", "6", "7", "1", "1", "1", "2", "2", "3", "3" >>

PhoneShort == << "1", "2", "3" >>

PhoneAlpha == << "0", "5", "0", "1", "2", "3", "4", "5", "a", "b" >>

Date_10_06_1990 == << "1", "0", ".", "0", "6", ".", "1", "9", "9", "0" >>

Date_29_02_2024 == << "2", "9", ".", "0", "2", ".", "2", "0", "2", "4" >>

Date_29_02_2023 == << "2", "9", ".", "0", "2", ".", "2", "0", "2", "3" >>

Date_Iso == << "1", "9", "9", "0", "-", "0", "6", "-", "1", "0" >>

EmailAB == << "a", "@", "b", ".", "c", "o" >>

EmailXY == << "x", ".", "y", "@", "m", "-", "n", ".", "o", "r", "g" >>

EmailNoTld == << "a", "@", "b" >>

Kyiv == << "K", "y", "i", "v" >>

Lviv == << "L", "v", "i", "v" >>

OneChar == << "x" >>

RecordNames == {Ann}

RecordPhones == {Phone1, Phone2, PhoneShort, PhoneAlpha}

RecordBirthdays == {Date_10_06_1990, Date_29_02_2024, Date_29_02_2023, Date_Iso}

RecordEmails == {EmailAB, EmailXY, EmailNoTld}

RecordAddresses == {Kyiv, Lviv, OneChar}

\* what a call on the directory or on one of its records leaves alone
BookCallFrame == UNCHANGED << notes, pc, frame, files, count >>

\* a Record method applied to book.find(name): r is the method's outcome
RecordCall(op, name, args, r) ==
    /\ Len(r.rec.phones) <= MaxPhones
    /\ book' = dict_set(book, name, r.rec)
    /\ call' = IF r.raised = "" THEN Returned(op, << name >> \o args, "None")
               ELSE Raised(op, << name >> \o args, r.raised)
    /\ book0' = book /\ notes0' = notes
    /\ UNCHANGED now
    /\ BookCallFrame

\* book.add_record(Record(name))
Call_AddressBook_add_record(name) ==
    /\ book' = AddressBook_add_record(book, Record(name))
    /\ call' = Returned("AddressBook.add_record", << name >>, "None")
    /\ book0' = book /\ notes0' = notes
    /\ UNCHANGED now
    /\ BookCallFrame

Call_Record_add_phone(name, phone) ==
    /\ name \in dict_keys(book)
    /\ RecordCall("Record.add_phone", name, << phone >>,
                  Record_add_phone(dict_get(book, name), phone))

Call_Record_remove_phone(name, phone) ==
    /\ name \in dict_keys(book)
    /\ RecordCall("Record.remove_phone", name, << phone >>,
                  [rec |-> Record_remove_phone(dict_get(book, name), phone),
                   raised |-> ""])

Call_Record_edit_phone(name, old_phone, new_phone) ==
    /\ name \in dict_keys(book)
    /\ RecordCall("Record.edit_phone", name, << old_phone, new_phone >>,
                  Record_edit_phone(dict_get(book, name), old_phone, new_phone))

Call_Record_add_birthday(name, birthday) ==
    /\ name \in dict_keys(book)
    /\ RecordCall("Record.add_birthday", name, << birthday >>,
                  Record_add_birthday(dict_get(book, name), birthday))

Call_Record_add_email(name, email) ==
    /\ name \in dict_keys(book)
    /\ RecordCall("Record.add_email", name, << email >>,
                  Record_add_email(dict_get(book, name), email))

Call_Record_add_address(name, address) ==
    /\ name \in dict_keys(book)
    /\ RecordCall("Record.add_address", name, << address >>,
                  Record_add_address(dict_get(book, name), address))

NextRecord ==
    \/ \E name \in RecordNames : Call_AddressBook_add_record(name)
    \/ \E name \in RecordNames, phone \in RecordPhones :
           Call_Record_add_phone(name, phone)
    \/ \E name \in RecordNames, phone \in RecordPhones :
           Call_Record_remove_phone(name, phone)
    \/ \E name \in RecordNames, old_phone \in RecordPhones,
          new_phone \in RecordPhones :
           Call_Record_edit_phone(name, old_phone, new_phone)
    \/ \E name \in RecordNames, birthday \in RecordBirthdays :
           Call_Record_add_birthday(name, birthday)
    \/ \E name \in RecordNames, email \in RecordEmails :
           Call_Record_add_email(name, email)
    \/ \E name \in RecordNames, address \in RecordAddresses :
           Call_Record_add_address(name, address)

SpecRecord == Init /\ [][NextRecord]_vars

----------------------------------------------------------------------------
(* Properties of a contact record                                          *)

\* C3: edit_phone(old, new) with new not a valid phone raises the
\* validation error and leaves the record's phones as they were
C3_EditPhoneAtomic ==
    ( /\ call.op = "Record.edit_phone"
      /\ ~Phone_validate(call.args[3]) )
    => /\ call.raised = "ValueError"
       /\ dict_get(book, call.args[1]).phones
              = dict_get(book0, call.args[1]).phones

\* C8: a setter given text that fails validation raises the validation
\* error and leaves the whole record as it was; given valid text it
\* overwrites its own field and no other
C8_SetterKeepsOldValue ==
    LET name == call.args[1]
        text == call.args[2]
        before == dict_get(book0, name)
        after == dict_get(book, name)
    IN  /\ call.op = "Record.add_birthday" =>
               IF strptime(text).raised = ""
               THEN /\ call.raised = ""
                    /\ after = [before EXCEPT
                                   !.birthday = Some(strptime(text).value)]
               ELSE call.raised = "ValueError" /\ after = before
        /\ call.op = "Record.add_address" =>
               IF Address_validate(text)
               THEN /\ call.raised = ""
                    /\ after = [before EXCEPT !.address = Some(text)]
               ELSE call.raised = "ValueError" /\ after = before
        /\ call.op = "Record.add_email" =>
               IF Email_validate(text)
               THEN /\ call.raised = ""
                    /\ after = [before EXCEPT !.email = Some(text)]
               ELSE call.raised = "ValueError" /\ after = before

\* C8's case: a setter fails on a record that holds a birthday, an address,
\* an email and a phone
C8_Witness ==
    /\ call.op \in {"Record.add_birthday", "Record.add_address",
                    "Record.add_email"}
    /\ call.raised = "ValueError"
    /\ LET before == dict_get(book0, call.args[1])
       IN  /\ before.birthday /= None
           /\ before.address /= None
           /\ before.email /= None
           /\ Len(before.phones) >= 1

----------------------------------------------------------------------------
(* The directory's birthday query                                          *)

\* bound on the window_days asked for
MaxWindow == 2

Date_12_06_1990 == << "1", "2", ".", "0", "6", ".", "1", "9", "9", "0" >>

Date_01_01_2000 == << "0", "1", ".", "0", "1", ".", "2", "0", "0", "0" >>

Date_29_02_2000 == << "2", "9", ".", "0", "2", ".", "2", "0", "0", "0" >>

BirthdayNames == {Ann, Bob}

BirthdayTexts ==
    {Date_10_06_1990, Date_12_06_1990, Date_01_01_2000, Date_29_02_2000,
     Date_Iso}

\* the moments datetime.today() is read at: midnight and noon of some days
Moments ==
    { datetime(2024, 2, 28, 0), datetime(2024, 2, 28, 43200),
      datetime(2024, 2, 29, 0), datetime(2024, 2, 29, 43200),
      datetime(2025, 6, 10, 0), datetime(2025, 6, 10, 43200),
      datetime(2025, 12, 30, 0), datetime(2025, 12, 30, 43200) }

\* book.get_upcoming_birthdays(days), datetime.today() giving today; the
\* clock does not run backwards
Call_AddressBook_get_upcoming_birthdays(today, days) ==
    LET r == AddressBook_get_upcoming_birthdays(book, today, days)
    IN  /\ StampLe(Stamp(now), Stamp(today))
        /\ now' = today
        /\ call' = [NoCall EXCEPT
                       !.op = "AddressBook.get_upcoming_birthdays",
                       !.days = days,
                       !.raised = r.raised,
                       !.names = IF r.raised = "" THEN r.value ELSE << >>]
        /\ book0' = book /\ notes0' = notes
        /\ UNCHANGED book
        /\ BookCallFrame

NextBirthdays ==
    \/ \E name \in BirthdayNames : Call_AddressBook_add_record(name)
    \/ \E name \in BirthdayNames, birthday \in BirthdayTexts :
           Call_Record_add_birthday(name, birthday)
    \/ \E today \in Moments, days \in 0..MaxWindow :
           Call_AddressBook_get_upcoming_birthdays(today, days)

SpecBirthdays == Init /\ [][NextBirthdays]_vars

----------------------------------------------------------------------------
(* Properties of the birthday query                                        *)

SetMin(S) == CHOOSE x \in S : \A y \in S : x <= y

\* the number of calendar days from today's date to the next date, today
\* included, that has the birthday's day and month
DaysUntilNext(birthday, today) ==
    SetMin({ toordinal([birthday EXCEPT !.year = y]) - toordinal(today) :
               y \in { z \in today.year..(today.year + 8) :
                         /\ birthday.day <= DaysInMonth(z, birthday.month)
                         /\ toordinal([birthday EXCEPT !.year = z])
                                >= toordinal(today) } })

\* the call returned a list that holds name
Reported(name) == call.raised = "" /\ InSeq(name, call.names)

\* C2: a record whose birthday has today's day and month is in the result
\* of get_upcoming_birthdays, whatever the time of day and the window
C2_BirthdayTodayReported ==
    call.op = "AddressBook.get_upcoming_birthdays" =>
        \A i \in 1..Len(book) :
            LET record == book[i].val
            IN  ( /\ record.birthday /= None
                  /\ record.birthday[1].day = now.day
                  /\ record.birthday[1].month = now.month )
                => Reported(record.name)

\* C5: a record whose next birthday is exactly window_days days after
\* today's date is in the result, and one whose next birthday is
\* window_days + 1 days after it is not
C5_UpperBoundary ==
    call.op = "AddressBook.get_upcoming_birthdays" =>
        \A i \in 1..Len(book) :
            LET record == book[i].val
            IN  record.birthday /= None =>
                    LET n == DaysUntilNext(record.birthday[1], now)
                    IN  /\ n = call.days => Reported(record.name)
                        /\ n = call.days + 1 => ~Reported(record.name)

\* the date with the birthday's day and month in year y exists
OccursIn(birthday, y) == birthday.day <= DaysInMonth(y, birthday.month)

\* the occurrence chosen for a birthday, as a day number: the one of
\* today's year, or the one of the following year when that one is a date
\* strictly before today's date
ChosenOccurrence(birthday, today) ==
    LET this_year == toordinal([birthday EXCEPT !.year = today.year])
    IN  IF this_year < toordinal(today)
        THEN toordinal([birthday EXCEPT !.year = today.year + 1])
        ELSE this_year

\* the record has a birthday whose chosen occurrence exists and lies
\* between today's date and the date window_days later, both included
InWindow(record) ==
    /\ record.birthday /= None
    /\ LET birthday == record.birthday[1]
           rolled == toordinal([birthday EXCEPT !.year = now.year])
                        < toordinal(now)
           occurrence == ChosenOccurrence(birthday, now)
       IN  /\ OccursIn(birthday, IF rolled THEN now.year + 1 ELSE now.year)
           /\ toordinal(now) <= occurrence
           /\ occurrence <= toordinal(now) + call.days

\* the names of the records in the window, in directory order
NamesInWindow ==
    LET chosen == SelectSeq(dict_values(book), InWindow)
    IN  [i \in 1..Len(chosen) |-> chosen[i].name]

\* C11: the list get_upcoming_birthdays returns holds exactly the names of
\* the records that have a birthday whose chosen occurrence (the one of
\* today's year, rolled to the following year when it is strictly before
\* today) lies in today .. today + window_days, in directory insertion order
C11_RollOverExactInOrder ==
    ( /\ call.op = "AddressBook.get_upcoming_birthdays"
      /\ call.raised = "" )
    => call.names = NamesInWindow

\* C12: get_upcoming_birthdays returns a list of names, whatever the valid
\* birthdays in the directory (29 February included), the current date and
\* window_days are
C12_AlwaysYieldsResult ==
    call.op = "AddressBook.get_upcoming_birthdays" => call.raised = ""

----------------------------------------------------------------------------
(* main(): the command loop                                                *)

\* bound on the number of lines read at the "Enter a command: " prompt
MaxCommands == 3

Cmd_close == << "c", "l", "o", "s", "e" >>

Cmd_exit == << "e", "x", "i", "t" >>

Cmd_hello == << "h", "e", "l", "l", "o" >>

Cmd_add_contact == << "a", "d", "d", "-", "c", "o", "n", "t", "a", "c", "t" >>

Cmd_change_phone == << "c", "h", "a", "n", "g", "e", "-", "p", "h", "o", "n", "e" >>

Cmd_show_phone == << "s", "h", "o", "w", "-", "p", "h", "o", "n", "e" >>

Cmd_all_contacts == << "a", "l", "l", "-", "c", "o", "n", "t", "a", "c", "t", "s" >>

Cmd_add_birthday == << "a", "d", "d", "-", "b", "i", "r", "t", "h", "d", "a", "y" >>

Cmd_add_address == << "a", "d", "d", "-", "a", "d", "d", "r", "e", "s", "s" >>

Cmd_add_email == << "a", "d", "d", "-", "e", "m", "a", "i", "l" >>

Cmd_show_birthday == << "s", "h", "o", "w", "-", "b", "i", "r", "t", "h", "d", "a", "y" >>

Cmd_birthdays == << "b", "i", "r", "t", "h", "d", "a", "y", "s" >>

Cmd_add_note == << "a", "d", "d", "-", "n", "o", "t", "e" >>

Cmd_edit_note == << "e", "d", "i", "t", "-", "n", "o", "t", "e" >>

Cmd_all_notes == << "a", "l", "l", "-", "n", "o", "t", "e", "s" >>

Cmd_delete_note == << "d", "e", "l", "e", "t", "e", "-", "n", "o", "t", "e" >>

Cmd_search_note == << "s", "e", "a", "r", "c", "h", "-", "n", "o", "t", "e" >>

Cmd_note_add_tag == << "n", "o", "t", "e", "-", "a", "d", "d", "-", "t", "a", "g" >>

AllCommands ==
    { Cmd_close,
      Cmd_exit,
      Cmd_hello,
      Cmd_add_contact,
      Cmd_change_phone,
      Cmd_show_phone,
      Cmd_all_contacts,
      Cmd_add_birthday,
      Cmd_add_address,
      Cmd_add_email,
      Cmd_show_birthday,
      Cmd_birthdays,
      Cmd_add_note,
      Cmd_edit_note,
      Cmd_all_notes,
      Cmd_delete_note,
      Cmd_search_note,
      Cmd_note_add_tag }

Bogus == << "b", "o", "g", "u", "s" >>

Two == << "2" >>

Huge == << "4", "0", "0", "0", "0", "0", "0" >>

QuerySh == << "S", "H" >>

\* lines typed at the "Enter a command: " prompt
Lines ==
    { << >>, << " ", " " >>, Bogus,
      Cmd_close, Cmd_exit, << " " >> \o Cmd_hello \o << " " >>,
      join(<< Cmd_add_contact, Ann, Phone1 >>),
      join(<< Cmd_add_contact, Ann, PhoneShort >>),
      join(<< Cmd_add_contact, Bob, Phone2 >>),
      join(<< Cmd_add_contact, Ann >>),
      join(<< Cmd_change_phone, Ann, Phone1, Phone2 >>),
      join(<< Cmd_change_phone, Ann, Phone1, PhoneShort >>),
      join(<< Cmd_change_phone, Ann >>),
      join(<< Cmd_show_phone, Ann >>), Cmd_show_phone,
      Cmd_all_contacts,
      join(<< Cmd_add_birthday, Ann, Date_10_06_1990 >>),
      join(<< Cmd_add_birthday, Ann, Date_Iso >>),
      join(<< Cmd_add_address, Ann, Kyiv, << >>, Lviv >>),
      join(<< Cmd_add_address, Ann, OneChar >>),
      join(<< Cmd_add_email, Ann, EmailAB >>),
      join(<< Cmd_add_email, Ann, EmailNoTld >>),
      join(<< Cmd_add_email, Ann >>),
      join(<< Cmd_show_birthday, Ann >>),
      Cmd_birthdays, join(<< Cmd_birthdays, Two >>),
      join(<< Cmd_birthdays, Huge >>),
      Cmd_add_note, Cmd_edit_note, Cmd_all_notes, Cmd_note_add_tag,
      join(<< Cmd_delete_note, Shop >>),
      join(<< Cmd_search_note, QuerySh >>), Cmd_search_note }

\* what is typed at the prompts of the interactive handlers
TitleInputs == { << >>, Shop, << " " >> \o Food \o << " " >> }

ContentInputs == { << >>, Milk }

ChoiceInputs == { << "t" >>, << "C" >>, << "b" >>, << "e" >>, << "x" >> }

TagInputs == { << >>, TagX }

\* what datetime.today() gives while main() runs
MainMoments == { datetime(2025, 6, 10, 0), datetime(2025, 6, 10, 43200) }

\* what an earlier run of main() saved: one note and one contact
SavedNotes == NoteBook_add_note(<< >>, Shop, Milk).data

SavedBook ==
    add_birthday(<< Ann, Date_10_06_1990 >>,
                 add_contact(<< Ann, Phone1 >>, << >>).data).data

\* main() after load_note_book / load_address_book: the pickled objects, or
\* empty ones when the files are missing
InitMain ==
    /\ \E saved \in BOOLEAN :
          /\ notes = IF saved THEN SavedNotes ELSE << >>
          /\ book = IF saved THEN SavedBook ELSE << >>
          /\ files = IF saved
                     THEN [note_book |-> Some(SavedNotes),
                           address_book |-> Some(SavedBook)]
                     ELSE [note_book |-> None, address_book |-> None]
    /\ pc = "command"
    /\ frame = NoFrame
    /\ count = 0
    /\ now = StartMoment
    /\ call = NoCall
    /\ book0 = book
    /\ notes0 = notes

\* user_input.split(maxsplit=1), then command, *args = ... and
\* args = args[0].split() if args else []
command(line) == split_max1(line)[1]

arguments(line) ==
    LET parts == split_max1(line)
    IN  IF Len(parts) >= 2 THEN split(parts[2]) ELSE << >>

\* main() reads a line at the command prompt and its first word is word
Reads(line, word) ==
    /\ pc = "command"
    /\ count < MaxCommands
    /\ Len(split_max1(line)) >= 1
    /\ command(line) = word
    /\ count' = count + 1
    /\ book0' = book
    /\ notes0' = notes

\* what a handler call leaves in call; an exception that input_error does
\* not catch leaves main()
Handled(op, args, r) ==
    /\ call' = [op |-> op, args |-> args, days |-> 0, raised |-> r.raised,
                ret |-> r.out, names |-> r.names]
    /\ pc' = IF r.raised = "" THEN "command" ELSE "crashed"

\* a handler on the directory
OnBook(op, args, r) ==
    /\ Handled(op, args, r)
    /\ book' = r.data
    /\ UNCHANGED << notes, frame, files >>

\* a handler on the notes
OnNotes(op, args, r) ==
    /\ Handled(op, args, r)
    /\ notes' = r.data
    /\ UNCHANGED << book, frame, files, now >>

\* command, *args = user_input.split(maxsplit=1) on a line with no word:
\* ValueError, outside every handler
Main_no_command(line) ==
    /\ pc = "command"
    /\ count < MaxCommands
    /\ Len(split_max1(line)) = 0
    /\ count' = count + 1
    /\ book0' = book
    /\ notes0' = notes
    /\ call' = Raised("main", << line >>, "ValueError")
    /\ pc' = "crashed"
    /\ UNCHANGED << book, notes, frame, files, now >>

\* close / exit: both collections are saved and the loop is left
Main_close(line) ==
    /\ \E word \in {Cmd_close, Cmd_exit} : Reads(line, word)
    /\ files' = [note_book |-> Some(notes), address_book |-> Some(book)]
    /\ call' = Returned("main", << command(line) >>, "Good bye!")
    /\ pc' = "exited"
    /\ UNCHANGED << book, notes, frame, now >>

Main_hello(line) ==
    /\ Reads(line, Cmd_hello)
    /\ call' = Returned("main", << command(line) >>, "How can I help you?")
    /\ UNCHANGED << book, notes, pc, frame, files, now >>

\* the else branch: no command of that name
Main_invalid(line) ==
    /\ Reads(line, command(line))
    /\ command(line) \notin AllCommands
    /\ call' = Returned("main", << command(line) >>, "Invalid command.")
    /\ UNCHANGED << book, notes, pc, frame, files, now >>

Main_add_contact(line) ==
    /\ Reads(line, Cmd_add_contact)
    /\ OnBook("add_contact", arguments(line), add_contact(arguments(line), book))
    /\ UNCHANGED now

Main_change_phone(line) ==
    /\ Reads(line, Cmd_change_phone)
    /\ OnBook("change_phone", arguments(line),
              change_phone(arguments(line), book))
    /\ UNCHANGED now

Main_show_phone(line) ==
    /\ Reads(line, Cmd_show_phone)
    /\ OnBook("show_phone_numbers", arguments(line),
              show_phone_numbers(arguments(line), book))
    /\ UNCHANGED now

Main_all_contacts(line) ==
    /\ Reads(line, Cmd_all_contacts)
    /\ OnBook("show_all_contacts", << >>, show_all_contacts(book))
    /\ UNCHANGED now

Main_add_birthday(line) ==
    /\ Reads(line, Cmd_add_birthday)
    /\ OnBook("add_birthday", arguments(line),
              add_birthday(arguments(line), book))
    /\ UNCHANGED now

Main_add_address(line) ==
    /\ Reads(line, Cmd_add_address)
    /\ OnBook("add_address", arguments(line),
              add_address(arguments(line), book))
    /\ UNCHANGED now

Main_add_email(line) ==
    /\ Reads(line, Cmd_add_email)
    /\ OnBook("add_email", arguments(line), add_email(arguments(line), book))
    /\ UNCHANGED now

Main_show_birthday(line) ==
    /\ Reads(line, Cmd_show_birthday)
    /\ OnBook("show_birthday", arguments(line),
              show_birthday(arguments(line), book))
    /\ UNCHANGED now

Main_birthdays(line, today) ==
    /\ Reads(line, Cmd_birthdays)
    /\ StampLe(Stamp(now), Stamp(today))
    /\ now' = today
    /\ OnBook("upcoming_birthdays", arguments(line),
              upcoming_birthdays(arguments(line), book, today))

Main_all_notes(line) ==
    /\ Reads(line, Cmd_all_notes)
    /\ OnNotes("show_all_notes", << >>, show_all_notes(notes))

Main_delete_note(line) ==
    /\ Reads(line, Cmd_delete_note)
    /\ OnNotes("delete_note", arguments(line),
               delete_note(arguments(line), notes))

Main_search_note(line) ==
    /\ Reads(line, Cmd_search_note)
    /\ OnNotes("search_note", arguments(line),
               search_note(arguments(line), notes))

\* the interactive handlers: a step of main() inside one of them reads one
\* line at the handler's prompt
Asks(at) ==
    /\ pc = at
    /\ book0' = book
    /\ notes0' = notes
    /\ UNCHANGED << book, files, count, now >>

\* the handler prints message and asks again
Again(op, message) ==
    /\ call' = Returned(op, << >>, message)
    /\ UNCHANGED << notes, pc, frame >>

\* the handler goes on to its next prompt
Goes(op, at, locals) ==
    /\ call' = Returned(op, << >>, "")
    /\ pc' = at
    /\ frame' = locals
    /\ UNCHANGED notes

\* the handler prints message and returns to main()
Returns(op, args, message, data) ==
    /\ call' = Returned(op, args, message)
    /\ pc' = "command"
    /\ frame' = NoFrame
    /\ notes' = data

\* main() enters an interactive handler, which shows its first prompt
Enters(op, at) ==
    /\ call' = Returned(op, << >>, "")
    /\ pc' = at
    /\ frame' = NoFrame
    /\ UNCHANGED << book, notes, files, now >>

Main_add_note(line) ==
    /\ Reads(line, Cmd_add_note)
    /\ Enters("add_note", "add_note: title")

\* add_note: the loop asking for a title that is not empty and not taken
add_note_title(text) ==
    /\ Asks("add_note: title")
    /\ LET title == strip(text)
       IN  IF Len(title) = 0
           THEN Again("add_note", "Note title cannot be empty.")
           ELSE IF title \in dict_keys(notes)
           THEN Again("add_note", "already exists.")
           ELSE Goes("add_note", "add_note: content",
                     [frame EXCEPT !.title = title])

\* add_note: the content is read and the note stored
add_note_content(text) ==
    /\ Asks("add_note: content")
    /\ LET content == strip(text)
           r == NoteBook_add_note(notes, frame.title, content)
       IN  Returns("add_note", << frame.title, content >>,
                   "Note successfully created!", r.data)

Main_edit_note(line) ==
    /\ Reads(line, Cmd_edit_note)
    /\ Enters("edit_note", "edit_note: current_title")

\* edit_note, step 1: the loop asking for the title of an existing note
edit_note_current_title(text) ==
    /\ Asks("edit_note: current_title")
    /\ LET current_title == strip(text)
       IN  IF current_title \in dict_keys(notes)
           THEN Goes("edit_note", "edit_note: choice",
                     [frame EXCEPT !.title = current_title,
                                   !.new_title = current_title])
           ELSE Again("edit_note", "not found. Please try again.")

\* edit_note, step 2: the loop asking what to edit
edit_note_choice(text) ==
    /\ Asks("edit_note: choice")
    /\ LET choice == lower(strip(text))
       IN  IF choice \in {<< "t" >>, << "b" >>}
           THEN Goes("edit_note", "edit_note: new_title",
                     [frame EXCEPT !.choice = choice])
           ELSE IF choice = << "c" >>
           THEN Goes("edit_note", "edit_note: new_content",
                     [frame EXCEPT !.choice = choice])
           ELSE IF choice = << "e" >>
           THEN Returns("edit_note", << frame.title >>,
                        "Exiting the edit process.", notes)
           ELSE Again("edit_note", "Invalid choice.")

\* edit_note: the loop asking for a new title that is not empty and not the
\* title of another note; the note is then renamed
edit_note_new_title(text) ==
    /\ Asks("edit_note: new_title")
    /\ LET new_title_input == strip(text)
           renamed == NoteBook_edit_note_title(notes, frame.title,
                                               new_title_input)
       IN  IF Len(new_title_input) = 0
           THEN Again("edit_note", "New title cannot be empty.")
           ELSE IF /\ new_title_input \in dict_keys(notes)
                   /\ new_title_input /= frame.title
           THEN Again("edit_note", "already exists. Please try again.")
           ELSE IF frame.choice = << "b" >>
           THEN /\ call' = Returned("edit_note", << >>, "")
                /\ pc' = "edit_note: new_content"
                /\ frame' = [frame EXCEPT !.new_title = new_title_input]
                /\ notes' = renamed
           ELSE Returns("edit_note", << frame.title, new_title_input >>,
                        "Note updated successfully!", renamed)

\* edit_note: the new content is read and stored, empty or not
edit_note_new_content(text) ==
    /\ Asks("edit_note: new_content")
    /\ LET new_content_input == strip(text)
       IN  Returns("edit_note", << frame.new_title, new_content_input >>,
                   "Note updated successfully!",
                   NoteBook_edit_note_content(notes, frame.new_title,
                                              new_content_input))

Main_note_add_tag(line) ==
    /\ Reads(line, Cmd_note_add_tag)
    /\ Enters("add_tag", "add_tag: note_title")

\* add_tag: the title is asked once
add_tag_note_title(text) ==
    /\ Asks("add_tag: note_title")
    /\ LET note_title == strip(text)
       IN  IF note_title \notin dict_keys(notes)
           THEN Returns("add_tag", << note_title >>, "not found.", notes)
           ELSE Goes("add_tag", "add_tag: tag",
                     [frame EXCEPT !.title = note_title])

\* add_tag: the tag is asked once and added when it is not empty
add_tag_tag(text) ==
    /\ Asks("add_tag: tag")
    /\ LET tag == strip(text)
       IN  IF Len(tag) = 0
           THEN Returns("add_tag", << frame.title, tag >>,
                        "Tag cannot be empty.", notes)
           ELSE Returns("add_tag", << frame.title, tag >>,
                        "successfully added to note",
                        add_tag_to(notes, frame.title, tag))

Next ==
    \/ \E line \in Lines :
          \/ Main_no_command(line)
          \/ Main_close(line)
          \/ Main_hello(line)
          \/ Main_invalid(line)
          \/ Main_add_contact(line)
          \/ Main_change_phone(line)
          \/ Main_show_phone(line)
          \/ Main_all_contacts(line)
          \/ Main_add_birthday(line)
          \/ Main_add_address(line)
          \/ Main_add_email(line)
          \/ Main_show_birthday(line)
          \/ \E today \in MainMoments : Main_birthdays(line, today)
          \/ Main_add_note(line)
          \/ Main_edit_note(line)
          \/ Main_all_notes(line)
          \/ Main_delete_note(line)
          \/ Main_search_note(line)
          \/ Main_note_add_tag(line)
    \/ \E text \in TitleInputs :
          \/ add_note_title(text)
          \/ edit_note_current_title(text)
          \/ edit_note_new_title(text)
          \/ add_tag_note_title(text)
    \/ \E text \in ContentInputs :
          \/ add_note_content(text)
          \/ edit_note_new_content(text)
    \/ \E text \in ChoiceInputs : edit_note_choice(text)
    \/ \E text \in TagInputs : add_tag_tag(text)

Spec == InitMain /\ [][Next]_vars

----------------------------------------------------------------------------
(* Properties of the command loop                                          *)

\* C4: a failed add-contact leaves no trace. When add-contact is given a
\* name that is not in the directory and a phone that fails validation, the
\* command fails and the directory is what it was before the command: no
\* record of that name, with an empty phone list, has been inserted.
C4_FailedAddContactLeavesNoTrace ==
    ( /\ call.op = "add_contact"
      /\ Len(call.args) >= 2
      /\ call.args[1] \notin dict_keys(book0)
      /\ ~Phone_validate(call.args[2]) )
    => /\ call.ret = "Error"
       /\ AddressBook_find(book, call.args[1]) = None
       /\ book = book0

\* C6: no error is fatal to the process. No input line makes main() end
\* with an exception; main() has ended only after close or exit, and then
\* the files hold the note collection and the directory as they are.
C6_NoErrorFatal ==
    /\ pc /= "crashed"
    /\ pc = "exited" =>
          /\ call.op = "main"
          /\ call.args \in {<< Cmd_close >>, << Cmd_exit >>}
          /\ files = [note_book |-> Some(notes), address_book |-> Some(book)]

====
